---- MODULE Spec2Model ----
(***************************************************************************)
(* Model of the process monitor: the Sampler (process_monitor.py), the     *)
(* Logger (logging_manager.py) and the hierarchy derivation, as state      *)
(* machines over the two log files and the monitor's fields.               *)
(*                                                                         *)
(* Encodings.  A Python Optional is a sequence: None is <<>> and a value v *)
(* is <<v>>.  Floats (cpu_percent, memory_mb) are integers in thousandths. *)
(* Instants (time.time(), datetime.now()) are integers on the clock `now`. *)
(***************************************************************************)
EXTENDS Integers, Sequences, FiniteSets, TLC

None == <<>>
Some(v) == <<v>>
IsNone(o) == o = <<>>
Get(o) == o[1]

Min(S) == CHOOSE m \in S : \A n \in S : m <= n

(***************************************************************************)
(* Bounds of the model.                                                    *)
(***************************************************************************)
MaxTicks == 2          \* sampling ticks over all runs on the directory
MaxTime == 3           \* last instant of the clock
MaxProcs == 3          \* processes of a snapshot used for the hierarchy
MaxPid == 3            \* PIDs of a hierarchy snapshot are 0..MaxPid
DepthLimit == 8        \* frames the interpreter allows before RecursionError
MaxTop == 3            \* processes the CLI holds for a top-N display
MaxScan == 2           \* processes met by a direct scan
MaxConns == 3          \* connections one process holds

(***************************************************************************)
(* What the OS answers for one process: the attribute read (info), the     *)
(* io_counters() query and the connections() query.  exc = "" means the    *)
(* query returned; otherwise it names the exception raised.                *)
(***************************************************************************)
IoOk(rb, wb, rc, wc) ==
    [exc |-> "", read_bytes |-> rb, write_bytes |-> wb,
     read_count |-> rc, write_count |-> wc]
IoFail(e) ==
    [exc |-> e, read_bytes |-> 0, write_bytes |-> 0,
     read_count |-> 0, write_count |-> 0]
ConnOk(states) == [exc |-> "", conns |-> states]
ConnFail(e) == [exc |-> e, conns |-> <<>>]

OsProc(pid, ppid, name, cpu, rss, user, io, conns) ==
    [pid |-> pid, info |-> "", name |-> name, status |-> "running",
     cpu_percent |-> cpu, rss |-> rss, ppid |-> ppid, username |-> user,
     io |-> io, conns |-> conns]

\* The process table the logging scans read, in PID order.
OsProcs ==
    << OsProc(1, None, "init", None, Some(1572864), None,
              IoFail("AccessDenied"), ConnFail("AccessDenied")),
       OsProc(2, Some(0), "kthreadd", Some(0), None, Some("root"),
              IoOk(0, 0, 0, 0), ConnOk(<<>>)),
       OsProc(3, Some(1), "job\n1", Some(12346), Some(3145728), Some("root"),
              IoOk(1, 2, 3, 4), ConnOk(<<"LISTEN", "ESTABLISHED", "ESTABLISHED">>)),
       [OsProc(4, Some(3), "bash", Some(500), Some(1048576), Some("kb"),
               IoOk(0, 0, 0, 0), ConnOk(<<>>)) EXCEPT !.info = "AccessDenied"] >>

\* The scans of a logging tick: process_iter yields the processes sorted by
\* PID, and a scan meets the first k of them.
OsSnapshots == {SubSeq(OsProcs, 1, k) : k \in 0..Len(OsProcs)}

(***************************************************************************)
(* Sampler: process_monitor.py                                             *)
(***************************************************************************)
DiskIO(rb, wb, rc, wc) ==
    [read_bytes |-> rb, write_bytes |-> wb, read_count |-> rc, write_count |-> wc]

\* Mutant: a failed query gives zero counters.
get_disk_io_zero(q) ==
    IF q.exc = ""
    THEN Some(DiskIO(q.read_bytes, q.write_bytes, q.read_count, q.write_count))
    ELSE Some(DiskIO(0, 0, 0, 0))

\* get_disk_io: the counters, or None when the query raises one of the
\* exceptions the method catches.
get_disk_io(q) ==
    IF q.exc = ""
    THEN Some(DiskIO(q.read_bytes, q.write_bytes, q.read_count, q.write_count))
    ELSE None

RECURSIVE CountConnections(_, _, _)
\* Mutant: a state met again is recorded once.
CountConnectionsOnce(connections, i, acc) ==
    IF i > Len(connections) THEN acc
    ELSE LET state == connections[i]
             cs == acc.connection_states
             cs2 == [s \in DOMAIN cs \cup {state} |->
                       IF s = state THEN 1 ELSE cs[s]]
         IN  CountConnections(connections, i + 1,
               [connection_states |-> cs2,
                established_count |->
                    IF state = "ESTABLISHED" THEN acc.established_count + 1
                    ELSE acc.established_count,
                listening_count |->
                    IF state # "ESTABLISHED" /\ state = "LISTEN"
                    THEN acc.listening_count + 1
                    ELSE acc.listening_count])

\* The loop of get_network_io over the connections, from index i on.
CountConnections(connections, i, acc) ==
    IF i > Len(connections) THEN acc
    ELSE LET state == connections[i]
             cs == acc.connection_states
             cs2 == IF state \in DOMAIN cs
                    THEN [cs EXCEPT ![state] = @ + 1]
                    ELSE [s \in DOMAIN cs \cup {state} |->
                            IF s = state THEN 1 ELSE cs[s]]
         IN  CountConnections(connections, i + 1,
               [connection_states |-> cs2,
                established_count |->
                    IF state = "ESTABLISHED" THEN acc.established_count + 1
                    ELSE acc.established_count,
                listening_count |->
                    IF state # "ESTABLISHED" /\ state = "LISTEN"
                    THEN acc.listening_count + 1
                    ELSE acc.listening_count])

EmptyStates == [s \in {} |-> 0]

get_network_io(q) ==
    IF q.exc = "" /\ q.conns # <<>>
    THEN LET acc == CountConnections(q.conns, 1,
                      [connection_states |-> EmptyStates,
                       established_count |-> 0, listening_count |-> 0])
         IN  Some([connections_count |-> Len(q.conns),
                   established_connections |-> acc.established_count,
                   listening_connections |-> acc.listening_count,
                   connection_states |-> acc.connection_states])
    ELSE None

total_connections(n) == n.connections_count

\* rss / (1024 * 1024), in thousandths of a megabyte (rss is a whole number
\* of KiB: resident memory is counted in pages).
MemoryMb(rss) == ((rss \div 1024) * 1000) \div 1024

ProcessInfo(p) ==
    [pid |-> p.pid,
     name |-> p.name,
     status |-> p.status,
     cpu_percent |-> IF IsNone(p.cpu_percent) \/ Get(p.cpu_percent) = 0
                     THEN 0 ELSE Get(p.cpu_percent),
     memory_mb |-> IF IsNone(p.rss) THEN 0 ELSE MemoryMb(Get(p.rss)),
     parent_pid |-> p.ppid,
     username |-> IF IsNone(p.username) \/ Get(p.username) = ""
                  THEN "Unknown" ELSE Get(p.username),
     disk_io |-> get_disk_io(p.io),
     network_io |-> get_network_io(p.conns)]

RECURSIVE ScanFrom(_, _, _)
\* Mutant: the scan ends at the first process whose attribute read raises.
ScanFromBreak(os, i, processes) ==
    IF i > Len(os) THEN processes
    ELSE IF os[i].info # ""
         THEN processes
         ELSE ScanFrom(os, i + 1, Append(processes, ProcessInfo(os[i])))

\* The scan loop of get_all_processes_with_io from index i on: a process
\* whose attribute read raises is skipped, every other one is appended.
ScanFrom(os, i, processes) ==
    IF i > Len(os) THEN processes
    ELSE IF os[i].info # ""
         THEN ScanFrom(os, i + 1, processes)
         ELSE ScanFrom(os, i + 1, Append(processes, ProcessInfo(os[i])))

\* _build_parent_child_map, the loop from index i on.
RECURSIVE BuildFrom(_, _, _)
BuildFrom(processes, i, map) ==
    IF i > Len(processes) THEN map
    ELSE LET proc == processes[i]
         IN  IF ~IsNone(proc.parent_pid)
             THEN LET pp == Get(proc.parent_pid)
                      m1 == IF pp \notin DOMAIN map
                            THEN [k \in DOMAIN map \cup {pp} |->
                                    IF k = pp THEN <<>> ELSE map[k]]
                            ELSE map
                  IN  BuildFrom(processes, i + 1,
                                [m1 EXCEPT ![pp] = Append(@, proc.pid)])
             ELSE BuildFrom(processes, i + 1, map)

EmptyMap == [k \in {} |-> <<>>]

_build_parent_child_map(processes) == BuildFrom(processes, 1, EmptyMap)

get_all_processes_with_io(os) == ScanFrom(os, 1, <<>>)

(***************************************************************************)
(* Logger: logging_manager.py                                              *)
(***************************************************************************)
VARIABLES
    csv_file,         \* the row file: [exists, lines], a line is a tuple of cells
    json_file,        \* the document file: [exists, parses, doc]
    log_interval,     \* self.log_interval of the Logger in use
    pc,               \* position of the Logger
    now,              \* the clock
    start_time,       \* start_time of start_continuous_logging
    duration,         \* its duration argument (an Optional)
    processes,        \* monitor.processes, the list the tick logs
    parent_child_map, \* monitor.parent_child_map
    timestamp,        \* timestamp of log_processes
    data,             \* the document _log_to_json holds in memory
    stopped_by,       \* how the loop ended: "", "duration" or "interrupt"
    ticks,            \* scans made so far
    completed,        \* history: the log_processes calls that returned
    aborted,          \* history: a log_processes call was cut short
    first_start,      \* history: log_start_time of the first initialization
    root_arg,         \* root_pid of the last get_process_hierarchy call
    hierarchy,        \* what that call produced
    repeated,         \* history: that call repeated the root of the one before
    arg,              \* argument of the last direct call of a query
    out               \* what that call returned or displayed

vars == <<csv_file, json_file, log_interval, pc, now, start_time, duration,
          processes, parent_child_map, timestamp, data, stopped_by, ticks,
          completed, aborted, first_start, root_arg, hierarchy, repeated,
          arg, out>>

hvars == <<root_arg, hierarchy, repeated>>
loopvars == <<start_time, duration, stopped_by>>
fvars == <<arg, out>>

\* No query has been called, or its result was dropped by the caller.
NoOut == [kind |-> "none"]

Intervals == {1, 2}
Durations == {None, Some(0), Some(1)}

\* datetime.isoformat of an instant.
isoformat(t) == "T" \o ToString(t)

CsvHeader ==
    <<"timestamp", "pid", "name", "status", "cpu_percent", "memory_mb",
      "parent_pid", "username", "disk_read_bytes", "disk_write_bytes",
      "disk_read_count", "disk_write_count", "network_connections",
      "network_established", "network_listening">>

Col(name) == CHOOSE i \in 1..Len(CsvHeader) : CsvHeader[i] = name

\* round(x, 2): thousandths to hundredths, ties to even.
Round2(x) ==
    LET q == x \div 10
        r == x % 10
    IN  IF r > 5 \/ (r = 5 /\ q % 2 = 1) THEN q + 1 ELSE q

\* f"{x:.2f}"
Format2f(x) ==
    LET h == Round2(x)
        frac == h % 100
    IN  ToString(h \div 100) \o "." \o
        (IF frac < 10 THEN "0" \o ToString(frac) ELSE ToString(frac))

AbsentFile == [exists |-> FALSE, lines |-> <<>>]
NoDoc == [log_start_time |-> "", log_interval_seconds |-> 0, entries |-> <<>>]
AbsentDoc == [exists |-> FALSE, parses |-> FALSE, doc |-> NoDoc]
\* A document file opened for writing and not yet written: no JSON in it.
TruncatedDoc == [exists |-> TRUE, parses |-> FALSE, doc |-> NoDoc]

\* Mutant: the header is written over whatever the directory holds.
_initialize_csv_file_always(f) == [exists |-> TRUE, lines |-> <<CsvHeader>>]

_initialize_csv_file(f) ==
    IF ~f.exists THEN [exists |-> TRUE, lines |-> <<CsvHeader>>] ELSE f

\* Mutant: the metadata is written over whatever the directory holds.
_initialize_json_file_always(f, interval, t) ==
    [exists |-> TRUE, parses |-> TRUE,
     doc |-> [log_start_time |-> isoformat(t),
              log_interval_seconds |-> interval,
              entries |-> <<>>]]

_initialize_json_file(f, interval, t) ==
    IF ~f.exists
    THEN [exists |-> TRUE, parses |-> TRUE,
          doc |-> [log_start_time |-> isoformat(t),
                   log_interval_seconds |-> interval,
                   entries |-> <<>>]]
    ELSE f

\* The row _log_to_csv writes for one process.
CsvRow(proc, ts) ==
    LET disk == proc.disk_io
        net == proc.network_io
    IN  << ts,
           ToString(proc.pid),
           proc.name,
           proc.status,
           Format2f(proc.cpu_percent),
           Format2f(proc.memory_mb),
           IF IsNone(proc.parent_pid) \/ Get(proc.parent_pid) = 0
           THEN "" ELSE ToString(Get(proc.parent_pid)),
           proc.username,
           ToString(IF ~IsNone(disk) THEN Get(disk).read_bytes ELSE 0),
           ToString(IF ~IsNone(disk) THEN Get(disk).write_bytes ELSE 0),
           ToString(IF ~IsNone(disk) THEN Get(disk).read_count ELSE 0),
           ToString(IF ~IsNone(disk) THEN Get(disk).write_count ELSE 0),
           ToString(IF ~IsNone(net) THEN total_connections(Get(net)) ELSE 0),
           ToString(IF ~IsNone(net) THEN Get(net).established_connections ELSE 0),
           ToString(IF ~IsNone(net) THEN Get(net).listening_connections ELSE 0) >>

\* _log_to_csv: the file after the first k processes have been written.
_log_to_csv(f, procs, ts, k) ==
    [exists |-> TRUE,
     lines |-> f.lines \o [i \in 1..k |-> CsvRow(procs[i], ts)]]

\* The object _log_to_json builds for one process.
ProcessData(proc) ==
    LET disk == proc.disk_io
        net == proc.network_io
    IN  [pid |-> proc.pid,
         name |-> proc.name,
         status |-> proc.status,
         cpu_percent |-> Round2(proc.cpu_percent),
         memory_mb |-> Round2(proc.memory_mb),
         parent_pid |-> proc.parent_pid,
         username |-> proc.username,
         disk_io |->
            [read_bytes |-> IF ~IsNone(disk) THEN Get(disk).read_bytes ELSE 0,
             write_bytes |-> IF ~IsNone(disk) THEN Get(disk).write_bytes ELSE 0,
             read_count |-> IF ~IsNone(disk) THEN Get(disk).read_count ELSE 0,
             write_count |-> IF ~IsNone(disk) THEN Get(disk).write_count ELSE 0],
         network_io |->
            [connections |-> IF ~IsNone(net) THEN total_connections(Get(net)) ELSE 0,
             established |-> IF ~IsNone(net) THEN Get(net).established_connections ELSE 0,
             listening |-> IF ~IsNone(net) THEN Get(net).listening_connections ELSE 0,
             connection_states |-> IF ~IsNone(net) THEN Get(net).connection_states
                                   ELSE EmptyStates]]

\* The entry of one tick.
Entry(procs, ts) ==
    [timestamp |-> ts,
     process_count |-> Len(procs),
     processes |-> [i \in 1..Len(procs) |-> ProcessData(procs[i])]]

\* Mutant: the entries read from the file are dropped.
AppendEntryOnly(doc, procs, ts) ==
    [doc EXCEPT !.entries = <<Entry(procs, ts)>>]

\* The document with the entry of this tick appended.
AppendEntry(doc, procs, ts) ==
    [doc EXCEPT !.entries = Append(@, Entry(procs, ts))]

NoResult == [kind |-> "none", map |-> EmptyMap]

\* The document an earlier session left behind.
PriorDoc ==
    [exists |-> TRUE, parses |-> TRUE,
     doc |-> [log_start_time |-> isoformat(-1), log_interval_seconds |-> 5,
              entries |-> <<>>]]

\* The output directory before the first Logger: empty, or holding one of
\* the two files as an earlier initialization wrote it.
InitialDirs ==
    { <<AbsentFile, AbsentDoc>>,
      <<_initialize_csv_file(AbsentFile), AbsentDoc>>,
      <<AbsentFile, PriorDoc>> }

Init ==
    /\ \E dir \in InitialDirs :
          /\ csv_file = dir[1]
          /\ json_file = dir[2]
          /\ first_start = IF dir[2].exists
                           THEN Some(dir[2].doc.log_start_time) ELSE None
    /\ log_interval = 0
    /\ pc = "new"
    /\ now = 0
    /\ start_time = 0
    /\ duration = None
    /\ processes = <<>>
    /\ parent_child_map = EmptyMap
    /\ timestamp = ""
    /\ data = NoDoc
    /\ stopped_by = ""
    /\ ticks = 0
    /\ completed = <<>>
    /\ aborted = FALSE
    /\ root_arg = None
    /\ hierarchy = NoResult
    /\ repeated = FALSE
    /\ arg = None
    /\ out = NoOut

\* LoggingManager.__init__
Construct(interval) ==
    /\ pc \in {"new", "ready", "stopped", "error"}
    /\ log_interval' = interval
    /\ processes' = <<>>
    /\ parent_child_map' = EmptyMap
    /\ csv_file' = _initialize_csv_file(csv_file)
    /\ json_file' = _initialize_json_file(json_file, interval, now)
    /\ first_start' = IF IsNone(first_start)
                      THEN Some(json_file'.doc.log_start_time) ELSE first_start
    /\ pc' = "ready"
    /\ UNCHANGED <<now, timestamp, data, ticks, completed, aborted>>
    /\ out' = NoOut
    /\ UNCHANGED <<loopvars, hvars, arg>>

\* start_continuous_logging, up to the loop.
StartContinuousLogging(d) ==
    /\ pc = "ready"
    /\ start_time' = now
    /\ duration' = d
    /\ stopped_by' = ""
    /\ pc' = "sample"
    /\ UNCHANGED <<csv_file, json_file, log_interval, now, processes,
                   parent_child_map, timestamp, data, ticks, completed,
                   aborted, first_start, hvars, arg>>
    /\ out' = NoOut

\* processes = self.monitor.get_all_processes_with_io(); the clock moves
\* in the waits between the ticks only.
Sample(os) ==
    /\ pc = "sample"
    /\ ticks < MaxTicks
    /\ processes' = get_all_processes_with_io(os)
    /\ parent_child_map' = _build_parent_child_map(processes')
    /\ ticks' = ticks + 1
    /\ pc' = "log"
    /\ UNCHANGED <<csv_file, json_file, log_interval, now, timestamp, data,
                   completed, aborted, first_start, loopvars, hvars, fvars>>

\* log_processes: timestamp = datetime.now().isoformat()
LogProcesses ==
    /\ pc = "log"
    /\ timestamp' = isoformat(now)
    /\ pc' = "csv"
    /\ UNCHANGED <<csv_file, json_file, log_interval, now, processes,
                   parent_child_map, data, ticks, completed, aborted,
                   first_start, loopvars, hvars, fvars>>

LogToCsv ==
    /\ pc = "csv"
    /\ csv_file' = _log_to_csv(csv_file, processes, timestamp, Len(processes))
    /\ pc' = "json_read"
    /\ UNCHANGED <<json_file, log_interval, now, processes, parent_child_map,
                   timestamp, data, ticks, completed, aborted, first_start,
                   loopvars, hvars, fvars>>

\* _log_to_json: json.load, then the entry is built and appended in memory.
\* A file that holds no JSON raises, and the loop does not catch it.
LogToJsonLoad ==
    /\ pc = "json_read"
    /\ IF json_file.exists /\ json_file.parses
       THEN /\ data' = AppendEntry(json_file.doc, processes, timestamp)
            /\ pc' = "json_open"
            /\ UNCHANGED aborted
       ELSE /\ pc' = "error"
            /\ aborted' = TRUE
            /\ UNCHANGED data
    /\ UNCHANGED <<csv_file, json_file, log_interval, now, processes,
                   parent_child_map, timestamp, ticks, completed, first_start,
                   loopvars, hvars, fvars>>

\* open(self.json_file, 'w') truncates the document.
LogToJsonOpen ==
    /\ pc = "json_open"
    /\ json_file' = TruncatedDoc
    /\ pc' = "json_dump"
    /\ UNCHANGED <<csv_file, log_interval, now, processes, parent_child_map,
                   timestamp, data, ticks, completed, aborted, first_start,
                   loopvars, hvars, fvars>>

\* json.dump(data, f) and the close; log_processes returns.
LogToJsonDump ==
    /\ pc = "json_dump"
    /\ json_file' = [exists |-> TRUE, parses |-> TRUE, doc |-> data]
    /\ completed' = Append(completed,
                           [timestamp |-> timestamp, processes |-> processes])
    /\ pc' = "check"
    /\ UNCHANGED <<csv_file, log_interval, now, processes, parent_child_map,
                   timestamp, data, ticks, aborted, first_start, loopvars,
                   hvars, fvars>>

\* if duration and (time.time() - start_time) >= duration
DurationReached ==
    /\ ~IsNone(duration)
    /\ Get(duration) # 0
    /\ now - start_time >= Get(duration)

\* start_continuous_logging returns: its locals and those of the calls it
\* made are gone.
Return(how) ==
    /\ pc' = "stopped"
    /\ stopped_by' = how
    /\ start_time' = 0
    /\ duration' = None
    /\ timestamp' = ""
    /\ data' = NoDoc

DurationCheck ==
    /\ pc = "check"
    /\ IF DurationReached
       THEN Return("duration")
       ELSE /\ pc' = "sleep"
            /\ UNCHANGED <<stopped_by, start_time, duration, timestamp, data>>
    /\ UNCHANGED <<csv_file, json_file, log_interval, now, processes,
                   parent_child_map, ticks, completed, aborted, first_start,
                   hvars, fvars>>

\* time.sleep(self.log_interval)
Sleep ==
    /\ pc = "sleep"
    /\ now + log_interval <= MaxTime
    /\ now' = now + log_interval
    /\ pc' = "sample"
    /\ UNCHANGED <<csv_file, json_file, log_interval, processes,
                   parent_child_map, timestamp, data, ticks, completed,
                   aborted, first_start, loopvars, hvars, fvars>>

LoopPcs == {"sample", "log", "csv", "json_read", "json_open", "json_dump",
            "check", "sleep"}
\* The positions inside log_processes once it has started to write.
WritingPcs == {"csv", "json_read", "json_open", "json_dump"}

\* KeyboardInterrupt raised inside the try block and caught by its handler.
\* Inside _log_to_csv the rows written so far are flushed when the file
\* closes; inside the rewrite of the document the file stays as it is.
Interrupt ==
    /\ pc \in LoopPcs
    /\ IF pc = "csv"
       THEN \E k \in 0..Len(processes) :
               csv_file' = _log_to_csv(csv_file, processes, timestamp, k)
       ELSE UNCHANGED csv_file
    /\ aborted' = (aborted \/ pc \in WritingPcs)
    /\ Return("interrupt")
    /\ UNCHANGED <<json_file, log_interval, now, processes, parent_child_map,
                   ticks, completed, first_start, hvars, fvars>>

\* str.count of the line breaks of a cell, over the strings of the model:
\* the process name "job\n1" is the one that holds a line break.
LineBreaks(cell) == IF cell = "job\n1" THEN 1 ELSE 0

RECURSIVE CellBreaks(_, _)
\* The line breaks csv.writer leaves inside one written row: a cell with a
\* line break is quoted and the break is kept.
CellBreaks(line, i) ==
    IF i > Len(line) THEN 0
    ELSE LineBreaks(line[i]) + CellBreaks(line, i + 1)

RECURSIVE LineCount(_, _)
\* sum(1 for line in f): the lines a text-mode read of the row file yields,
\* from row i on.
LineCount(lines, i) ==
    IF i > Len(lines) THEN 0
    ELSE 1 + CellBreaks(lines[i], 1) + LineCount(lines, i + 1)

\* get_log_summary: json.load raises on a file that holds no document; a key
\* of a file that does not exist is not set.
get_log_summary(csv, json, interval) ==
    IF json.exists /\ ~json.parses
    THEN [kind |-> "JSONDecodeError"]
    ELSE [kind |-> "summary",
          csv_exists |-> csv.exists,
          json_exists |-> json.exists,
          log_interval |-> interval,
          csv_entries |-> IF csv.exists
                          THEN Some(LineCount(csv.lines, 1) - 1) ELSE None,
          json_entries |-> IF json.exists
                           THEN Some(Len(json.doc.entries)) ELSE None,
          log_start_time |-> IF json.exists
                             THEN Some(json.doc.log_start_time) ELSE None]

\* logger.get_log_summary() on a Logger that is not logging.
GetLogSummary ==
    /\ pc \in {"ready", "stopped"}
    /\ out' = get_log_summary(csv_file, json_file, log_interval)
    /\ UNCHANGED <<csv_file, json_file, log_interval, pc, now, processes,
                   parent_child_map, timestamp, data, ticks, completed,
                   aborted, first_start, loopvars, hvars, arg>>

Next ==
    \/ \E i \in Intervals : Construct(i)
    \/ GetLogSummary
    \/ \E d \in Durations : StartContinuousLogging(d)
    \/ \E os \in OsSnapshots : Sample(os)
    \/ LogProcesses
    \/ LogToCsv
    \/ LogToJsonLoad
    \/ LogToJsonOpen
    \/ LogToJsonDump
    \/ DurationCheck
    \/ Sleep
    \/ Interrupt

Spec == Init /\ [][Next]_vars

(***************************************************************************)
(* Hierarchy derivation: process_monitor.py                                *)
(***************************************************************************)
\* dict.update
Update(a, b) ==
    [k \in DOMAIN a \cup DOMAIN b |-> IF k \in DOMAIN b THEN b[k] ELSE a[k]]

Returned(m) == [kind |-> "map", map |-> m]
Raised(e) == [kind |-> e, map |-> EmptyMap]

\* _get_children_recursive in frame number depth.  The interpreter raises
\* RecursionError in the frame past its limit, and no frame catches it.
RECURSIVE _get_children_recursive(_, _, _)
RECURSIVE ChildrenLoop(_, _, _, _, _)
_get_children_recursive(map, parent_pid, depth) ==
    IF depth > DepthLimit THEN Raised("RecursionError")
    ELSE IF parent_pid \in DOMAIN map
         THEN LET children == map[parent_pid]
                  h == [k \in {parent_pid} |-> children]
              IN  ChildrenLoop(map, children, 1, h, depth)
         ELSE Returned(EmptyMap)

\* Mutant: the loop stops after the first child.
ChildrenLoopFirstOnly(map, children, i, h, depth) ==
    IF i > Len(children) \/ i > 1 THEN Returned(h)
    ELSE LET r == _get_children_recursive(map, children[i], depth + 1)
         IN  IF r.kind # "map" THEN r
             ELSE ChildrenLoop(map, children, i + 1, Update(h, r.map), depth)

\* for child_pid in children: hierarchy.update(...), from index i on.
ChildrenLoop(map, children, i, h, depth) ==
    IF i > Len(children) THEN Returned(h)
    ELSE LET r == _get_children_recursive(map, children[i], depth + 1)
         IN  IF r.kind # "map" THEN r
             ELSE ChildrenLoop(map, children, i + 1, Update(h, r.map), depth)

\* Mutant: PID 1 is a root only when it has no parent.
RootProcessesParentless(procs) ==
    SelectSeq([i \in 1..Len(procs) |-> procs[i].pid],
              LAMBDA pid : \E i \in 1..Len(procs) :
                              /\ procs[i].pid = pid
                              /\ IsNone(procs[i].parent_pid))

\* [p.pid for p in self.processes if p.parent_pid is None or p.pid == 1]
RootProcesses(procs) ==
    SelectSeq([i \in 1..Len(procs) |-> procs[i].pid],
              LAMBDA pid : \E i \in 1..Len(procs) :
                              /\ procs[i].pid = pid
                              /\ (IsNone(procs[i].parent_pid) \/ pid = 1))

\* for root_pid in root_processes: hierarchy.update(...), from index i on.
RECURSIVE RootsLoop(_, _, _, _)
RootsLoop(map, roots, i, h) ==
    IF i > Len(roots) THEN Returned(h)
    ELSE LET r == _get_children_recursive(map, roots[i], 2)
         IN  IF r.kind # "map" THEN r
             ELSE RootsLoop(map, roots, i + 1, Update(h, r.map))

\* get_process_hierarchy; min() of no process raises ValueError.
get_process_hierarchy(procs, map, root_pid) ==
    IF IsNone(root_pid)
    THEN LET found == RootProcesses(procs)
         IN  IF found = <<>> /\ procs = <<>> THEN Raised("ValueError")
             ELSE LET root_processes ==
                          IF found = <<>>
                          THEN <<Min({procs[i].pid : i \in 1..Len(procs)})>>
                          ELSE found
                  IN  RootsLoop(map, root_processes, 1, EmptyMap)
    ELSE _get_children_recursive(map, Get(root_pid), 2)

\* Mutant: the walk takes the visited entries out of the adjacency map.
HierarchyCallPop(procs, map, root_pid) ==
    LET r == get_process_hierarchy(procs, map, root_pid)
    IN  [hierarchy |-> r,
         processes |-> procs,
         parent_child_map |-> [k \in DOMAIN map \ DOMAIN r.map |-> map[k]]]

\* The monitor after a get_process_hierarchy call and what the call gave:
\* the call assigns to neither field.
HierarchyCall(procs, map, root_pid) ==
    [hierarchy |-> get_process_hierarchy(procs, map, root_pid),
     processes |-> procs,
     parent_child_map |-> map]

Pids == 0..MaxPid
ParentPids == {None} \cup {Some(p) : p \in Pids}

RECURSIVE SortedSeq(_)
SortedSeq(S) ==
    IF S = {} THEN <<>> ELSE <<Min(S)>> \o SortedSeq(S \ {Min(S)})

\* A process as get_all_processes records it (no I/O data).
Proc(pid, ppid) ==
    ProcessInfo(OsProc(pid, ppid, "p", None, None, None,
                       IoFail("AccessDenied"), ConnFail("AccessDenied")))

\* A snapshot: the processes S sorted by PID, each with the parent f gives.
Snapshot(S, f) ==
    LET pids == SortedSeq(S)
    IN  [i \in 1..Len(pids) |-> Proc(pids[i], f[pids[i]])]

\* The snapshot of the documented example: {1:(none), 2:(1), 3:(1), 4:(2)}.
ExampleSnapshot ==
    <<Proc(1, None), Proc(2, Some(1)), Proc(3, Some(1)), Proc(4, Some(2))>>

\* The monitor after get_all_processes on a snapshot of at most MaxProcs
\* processes, each with any parent PID or none, or on the example.
InitH ==
    /\ \/ \E S \in SUBSET Pids :
             /\ Cardinality(S) <= MaxProcs
             /\ \E f \in [S -> ParentPids] : processes = Snapshot(S, f)
       \/ processes = ExampleSnapshot
    /\ parent_child_map = _build_parent_child_map(processes)
    /\ pc = "monitor"
    /\ csv_file = AbsentFile
    /\ json_file = AbsentDoc
    /\ first_start = None
    /\ log_interval = 0
    /\ now = 0
    /\ start_time = 0
    /\ duration = None
    /\ timestamp = ""
    /\ data = NoDoc
    /\ stopped_by = ""
    /\ ticks = 0
    /\ completed = <<>>
    /\ aborted = FALSE
    /\ root_arg = None
    /\ hierarchy = NoResult
    /\ repeated = FALSE
    /\ arg = None
    /\ out = NoOut

GetProcessHierarchy(root_pid) ==
    /\ pc = "monitor"
    /\ LET after == HierarchyCall(processes, parent_child_map, root_pid)
       IN  /\ hierarchy' = after.hierarchy
           /\ processes' = after.processes
           /\ parent_child_map' = after.parent_child_map
    /\ root_arg' = root_pid
    /\ repeated' = (hierarchy.kind # "none" /\ root_pid = root_arg)
    /\ UNCHANGED <<csv_file, json_file, log_interval, pc, now, timestamp, data,
                   ticks, completed, aborted, first_start, loopvars, fvars>>

NextH == \E root_pid \in ParentPids : GetProcessHierarchy(root_pid)

SpecH == InitH /\ [][NextH]_vars

(***************************************************************************)
(* Direct calls of the Sampler's queries.  No Logger exists: its files and *)
(* fields keep the values below.                                           *)
(***************************************************************************)
NoLogger ==
    /\ csv_file = AbsentFile
    /\ json_file = AbsentDoc
    /\ first_start = None
    /\ log_interval = 0
    /\ now = 0
    /\ start_time = 0
    /\ duration = None
    /\ timestamp = ""
    /\ data = NoDoc
    /\ stopped_by = ""
    /\ ticks = 0
    /\ completed = <<>>
    /\ aborted = FALSE
    /\ root_arg = None
    /\ hierarchy = NoResult
    /\ repeated = FALSE

loggervars == <<csv_file, json_file, first_start, log_interval, now, timestamp,
                data, ticks, completed, aborted, loopvars, hvars>>

\* The sequences over S of length at most n.
SeqsUpTo(S, n) == UNION {[1..k -> S] : k \in 0..n}

\* conn.status of a connection: three of psutil's CONN_* names and the
\* status of a socket that has none.
ConnStatuses == {"ESTABLISHED", "LISTEN", "CLOSE_WAIT", "NONE"}
\* The exceptions get_disk_io and get_network_io catch.
QueryErrors == {"NoSuchProcess", "AccessDenied", "AttributeError"}

\* What proc.connections() can answer for one process.
ConnQueries ==
    {ConnOk(c) : c \in SeqsUpTo(ConnStatuses, MaxConns)}
        \cup {ConnFail(e) : e \in QueryErrors}

InitN ==
    /\ NoLogger
    /\ processes = <<>>
    /\ parent_child_map = EmptyMap
    /\ pc = "network"
    /\ arg \in ConnQueries
    /\ out = NoOut

\* monitor.get_network_io(pid) on a process whose connections() answers arg.
GetNetworkIo ==
    /\ pc = "network"
    /\ out' = [kind |-> "network_io", value |-> get_network_io(arg)]
    /\ UNCHANGED <<pc, arg, processes, parent_child_map, loggervars>>

NextN == GetNetworkIo

SpecN == InitN /\ [][NextN]_vars

\* The exceptions the scan loop catches around one process.
ScanErrors == {"AccessDenied", "NoSuchProcess", "ZombieProcess"}

\* What the OS can answer for the process with this PID: the attribute read
\* returns or raises, and so does each of the two I/O queries.
ScanProcs(pid) ==
    {[OsProc(pid, Some(1), "proc", Some(1500), Some(2097152), Some("kb"),
             io, conns) EXCEPT !.info = info] :
        info \in {""} \cup ScanErrors,
        io \in {IoOk(1, 2, 3, 4), IoFail("AccessDenied"),
                IoFail("AttributeError")},
        conns \in {ConnOk(<<"LISTEN">>), ConnFail("NoSuchProcess")}}

\* The process tables of at most MaxScan processes, met in PID order.
ScanTables ==
    UNION {{t \in [1..k -> UNION {ScanProcs(i) : i \in 1..k}] :
               \A i \in 1..k : t[i].pid = i} : k \in 0..MaxScan}

InitS ==
    /\ NoLogger
    /\ processes = <<>>
    /\ parent_child_map = EmptyMap
    /\ pc = "scan"
    /\ arg \in ScanTables
    /\ out = NoOut

\* monitor.get_all_processes_with_io() while the OS holds the table arg.
GetAllProcessesWithIo ==
    /\ pc = "scan"
    /\ processes' = get_all_processes_with_io(arg)
    /\ parent_child_map' = _build_parent_child_map(processes')
    /\ out' = [kind |-> "processes", value |-> processes']
    /\ UNCHANGED <<pc, arg, loggervars>>

NextS == GetAllProcessesWithIo

SpecS == InitS /\ [][NextS]_vars

(***************************************************************************)
(* Top-N display of the CLI: main.py                                       *)
(***************************************************************************)
\* Mutant: the record goes behind the records with less CPU (no reverse).
InsertByCpuAscending(sorted, p) ==
    LET k == Cardinality({i \in 1..Len(sorted) :
                            sorted[i].cpu_percent <= p.cpu_percent})
    IN  SubSeq(sorted, 1, k) \o <<p>> \o SubSeq(sorted, k + 1, Len(sorted))

\* One step of the stable sort by cpu_percent, reverse=True: the record
\* goes behind every record already placed with at least its CPU percent.
InsertByCpu(sorted, p) ==
    LET k == Cardinality({i \in 1..Len(sorted) :
                            sorted[i].cpu_percent >= p.cpu_percent})
    IN  SubSeq(sorted, 1, k) \o <<p>> \o SubSeq(sorted, k + 1, Len(sorted))

RECURSIVE SortedByCpu(_, _, _)
\* sorted(self.processes, key=lambda p: p.cpu_percent, reverse=True)
SortedByCpu(procs, i, sorted) ==
    IF i > Len(procs) THEN sorted
    ELSE SortedByCpu(procs, i + 1, InsertByCpu(sorted, procs[i]))

\* What a top-N request printed (an error line, a warning line, the table)
\* and the exit status it ended the program with, if it did.
Display(count, error, warning, shown, exit) ==
    [kind |-> "top", count |-> count, error |-> error, warning |-> warning,
     shown |-> shown, exit |-> exit]

_display_top_processes(procs, count) ==
    IF count <= 0
    THEN Display(count, TRUE, FALSE, <<>>, None)
    ELSE LET c == IF count > Len(procs) THEN Len(procs) ELSE count
         IN  Display(count, FALSE, count > Len(procs),
                     SubSeq(SortedByCpu(procs, 1, <<>>), 1, c), None)

\* main() and run() for `--top count` alone: main rejects a non-positive
\* count before the scan and exits with status 1, run warns and returns
\* when the scan found nothing.
MainTopRequest(procs, count) ==
    IF count <= 0
    THEN Display(count, TRUE, FALSE, <<>>, Some(1))
    ELSE IF procs = <<>>
         THEN Display(count, FALSE, TRUE, <<>>, None)
         ELSE _display_top_processes(procs, count)

CpuPercents == {0, 500, 1235}
TopCounts == (0 - 1)..(MaxTop + 1)

\* The process lists of the CLI: at most MaxTop records, PID i at place i.
CliProcesses ==
    UNION {{[i \in 1..k |->
               ProcessInfo(OsProc(i, None, "proc", Some(c[i]), None, None,
                                  IoFail("AccessDenied"),
                                  ConnFail("AccessDenied")))] :
              c \in [1..k -> CpuPercents]} : k \in 0..MaxTop}

InitT ==
    /\ NoLogger
    /\ processes = <<>>
    /\ parent_child_map = EmptyMap
    /\ pc = "cli"
    /\ arg \in CliProcesses
    /\ out = NoOut

\* cli._display_top_processes(count) with cli.processes = arg.
DisplayTopProcesses(count) ==
    /\ pc = "cli"
    /\ out' = _display_top_processes(arg, count)
    /\ UNCHANGED <<pc, arg, processes, parent_child_map, loggervars>>

\* main() with `--top count` while the scan returns arg.
MainTop(count) ==
    /\ pc = "cli"
    /\ out' = MainTopRequest(arg, count)
    /\ UNCHANGED <<pc, arg, processes, parent_child_map, loggervars>>

NextT ==
    \/ \E count \in TopCounts : DisplayTopProcesses(count)
    \/ \E count \in TopCounts : MainTop(count)

SpecT == InitT /\ [][NextT]_vars

(***************************************************************************)
(* Properties of the Logger, checked under Spec.                           *)
(***************************************************************************)
Rows(f) == SubSeq(f.lines, 2, Len(f.lines))
IsPrefix(s, t) == Len(s) <= Len(t) /\ SubSeq(t, 1, Len(s)) = s

RECURSIVE RecordCount(_)
RecordCount(calls) ==
    IF calls = <<>> THEN 0
    ELSE Len(calls[1].processes) + RecordCount(Tail(calls))

\* C1: a construction leaves a file that exists as it is, whatever the
\* interval argument, and writes a file only when it was absent.
C1_InitLeavesExistingFiles ==
    [][\A i \in Intervals : Construct(i) =>
          /\ csv_file.exists => csv_file' = csv_file
          /\ json_file.exists => json_file' = json_file
          /\ ~csv_file.exists => csv_file' = [exists |-> TRUE, lines |-> <<CsvHeader>>]
          /\ ~json_file.exists =>
                /\ json_file'.doc.entries = <<>>
                /\ json_file'.doc.log_interval_seconds = i]_vars

\* A Logger constructed on a directory that holds rows and entries, with an
\* interval other than the recorded one.
C1_Witness ==
    /\ pc = "ready"
    /\ Len(csv_file.lines) > 1
    /\ json_file.parses
    /\ Len(json_file.doc.entries) > 0
    /\ log_interval # json_file.doc.log_interval_seconds

\* C2: the row file has exactly one header, its first line; no step changes
\* or removes a line; and when every log_processes call so far has returned,
\* the data rows number the records of those calls.
C2_RowsMonotonic ==
    /\ [](csv_file.exists =>
            /\ Len(csv_file.lines) >= 1
            /\ csv_file.lines[1] = CsvHeader
            /\ \A i \in 2..Len(csv_file.lines) : csv_file.lines[i] # CsvHeader)
    /\ []((csv_file.exists /\ ~aborted /\ pc \notin WritingPcs) =>
            Len(Rows(csv_file)) = RecordCount(completed))
    /\ [][csv_file.exists =>
            /\ csv_file'.exists
            /\ IsPrefix(csv_file.lines, csv_file'.lines)]_vars

\* Two calls returned, then a Logger was constructed again.
C2_Witness ==
    /\ pc = "ready"
    /\ ~aborted
    /\ Len(completed) = 2
    /\ Len(completed[1].processes) >= 2
    /\ Len(Rows(csv_file)) = RecordCount(completed)

\* C3: a document that holds JSON holds one entry per log_processes call
\* that returned, in order and unchanged, and the log_start_time of the first
\* initialization.
C3_EntriesAppendOnly ==
    /\ []((json_file.exists /\ json_file.parses) =>
            /\ json_file.doc.entries =
                  [j \in 1..Len(completed) |->
                      Entry(completed[j].processes, completed[j].timestamp)]
            /\ ~IsNone(first_start)
            /\ json_file.doc.log_start_time = Get(first_start))
    /\ [][(json_file.exists /\ json_file.parses
            /\ json_file'.exists /\ json_file'.parses) =>
            /\ IsPrefix(json_file.doc.entries, json_file'.doc.entries)
            /\ Len(json_file'.doc.entries) <= Len(json_file.doc.entries) + 1
            /\ json_file'.doc.log_start_time = json_file.doc.log_start_time]_vars

\* Two ticks completed, then a later construction.
C3_Witness ==
    /\ pc = "ready"
    /\ json_file.parses
    /\ Len(json_file.doc.entries) = 2
    /\ Len(completed) = 2
    /\ json_file.doc.log_start_time = Get(first_start)

\* C4: at the duration check, a duration bound that is set (0 included) and
\* met by the elapsed time stops the loop.
C4_DurationBoundStops ==
    [][(pc = "check" /\ ~IsNone(duration)
          /\ now - start_time >= Get(duration)) => pc' = "stopped"]_vars

\* C5: after an interrupt has stopped the loop, the entry and the rows of
\* every tick that completed are in the two files.
C5_InterruptKeepsData ==
    (pc = "stopped" /\ stopped_by = "interrupt") =>
        \A j \in 1..Len(completed) :
            /\ json_file.exists /\ json_file.parses
            /\ \E e \in 1..Len(json_file.doc.entries) :
                  json_file.doc.entries[e] =
                      Entry(completed[j].processes, completed[j].timestamp)
            /\ \A i \in 1..Len(completed[j].processes) :
                  \E l \in 2..Len(csv_file.lines) :
                      csv_file.lines[l] =
                          CsvRow(completed[j].processes[i], completed[j].timestamp)

\* The rows and the entry of the tick that has just been logged.
TickRow(i) == csv_file.lines[Len(csv_file.lines) - Len(processes) + i]
TickEntry == json_file.doc.entries[Len(json_file.doc.entries)]
DiskColumns == {"disk_read_bytes", "disk_write_bytes",
                "disk_read_count", "disk_write_count"}
\* What the document shows for a process whose counters are all zero.
ZeroDiskObject ==
    ProcessData([Proc(0, None) EXCEPT !.disk_io = Some(DiskIO(0, 0, 0, 0))]).disk_io

\* A failed disk query leaves disk_io absent in the record of the scan.
FailedQueryAbsent ==
    [][\A os \in OsSnapshots : Sample(os) =>
          \A i \in 1..Len(os), j \in 1..Len(processes') :
             (os[i].pid = processes'[j].pid /\ os[i].io.exc # "") =>
                 IsNone(processes'[j].disk_io)]_vars

\* C6 as stated: a record without disk I/O is logged with zero in the four
\* disk columns, and with a document object that differs from the object of
\* a process whose counters are all zero.
C6_AbsenceDistinguishable ==
    pc = "check" =>
        \A i \in 1..Len(processes) : IsNone(processes[i].disk_io) =>
            /\ \A c \in DiskColumns : TickRow(i)[Col(c)] = "0"
            /\ TickEntry.processes[i].disk_io # ZeroDiskObject

\* C6 amended: a failed disk query leaves disk_io absent in the record; the
\* record is logged with zero in the four disk columns and with the document
\* object of a process whose counters are all zero.
C6_AbsenceFlattened ==
    /\ FailedQueryAbsent
    /\ [](pc = "check" =>
            \A i \in 1..Len(processes) : IsNone(processes[i].disk_io) =>
                /\ \A c \in DiskColumns : TickRow(i)[Col(c)] = "0"
                /\ TickEntry.processes[i].disk_io = ZeroDiskObject
                /\ TickEntry.processes[i].disk_io = DiskIO(0, 0, 0, 0))

\* A tick that logged a process without disk I/O and one with zero counters.
C6_Witness ==
    /\ pc = "check"
    /\ \E i, j \in 1..Len(processes) :
          /\ IsNone(processes[i].disk_io)
          /\ processes[j].disk_io = Some(DiskIO(0, 0, 0, 0))
          /\ TickEntry.processes[i].disk_io = TickEntry.processes[j].disk_io

(***************************************************************************)
(* Properties of the hierarchy derivation, checked under SpecH.            *)
(***************************************************************************)
\* The children of pid in the process list, in encounter order.
ChildrenOf(procs, pid) ==
    LET kids == SelectSeq([i \in 1..Len(procs) |-> i],
                          LAMBDA i : procs[i].parent_pid = Some(pid))
    IN  [j \in 1..Len(kids) |-> procs[kids[j]].pid]

\* The PIDs reachable from S by parent-to-child steps.
RECURSIVE Reachable(_, _)
Reachable(procs, S) ==
    LET next == S \cup {procs[i].pid : i \in {j \in 1..Len(procs) :
                          \E p \in S : procs[j].parent_pid = Some(p)}}
    IN  IF next = S THEN S ELSE Reachable(procs, next)

\* The adjacency entries of the PIDs reachable from the roots.
Subtrees(procs, roots) ==
    [k \in {p \in Reachable(procs, roots) : ChildrenOf(procs, p) # <<>>} |->
        ChildrenOf(procs, k)]

\* The roots taken when no root is given.
DefaultRoots(procs) ==
    LET parentless == {procs[i].pid : i \in {j \in 1..Len(procs) :
                          IsNone(procs[j].parent_pid) \/ procs[j].pid = 1}}
    IN  IF parentless # {} THEN parentless
        ELSE {Min({procs[i].pid : i \in 1..Len(procs)})}

\* C7: with no root given, a call that returns gives the adjacency entries
\* of everything reachable from the parentless processes and PID 1, or from
\* the smallest PID when there are none; on the snapshot {1:(none), 2:(1),
\* 3:(1), 4:(2)} it gives exactly {1:[2,3], 2:[4]}.
C7_DefaultRootsHierarchy ==
    (hierarchy.kind = "map" /\ IsNone(root_arg)) =>
        /\ hierarchy.map = Subtrees(processes, DefaultRoots(processes))
        /\ processes = ExampleSnapshot =>
              hierarchy.map = (1 :> <<2, 3>> @@ 2 :> <<4>>)

C7_Witness ==
    /\ hierarchy.kind = "map"
    /\ IsNone(root_arg)
    /\ processes = ExampleSnapshot
    /\ DOMAIN hierarchy.map = {1, 2}

\* C8: with a root given, a call that returns gives exactly the adjacency
\* entries of the PIDs reachable from the root, each with its full child
\* list in encounter order, and no key maps to an empty list.
C8_SubtreeOfRoot ==
    (hierarchy.kind = "map" /\ ~IsNone(root_arg)) =>
        /\ hierarchy.map = Subtrees(processes, {Get(root_arg)})
        /\ DOMAIN hierarchy.map \subseteq Reachable(processes, {Get(root_arg)})
        /\ \A k \in DOMAIN hierarchy.map : hierarchy.map[k] # <<>>

\* A root with two children, one of which has a child of its own.
C8_Witness ==
    /\ hierarchy.kind = "map"
    /\ ~IsNone(root_arg)
    /\ Get(root_arg) \in DOMAIN hierarchy.map
    /\ Len(hierarchy.map[Get(root_arg)]) = 2
    /\ Cardinality(DOMAIN hierarchy.map) = 2

\* C9: a call changes neither the process list nor the adjacency map, and a
\* call with the same root as the call before gives the same result.
C9_HierarchyIdempotent ==
    [][pc = "monitor" =>
          /\ processes' = processes
          /\ parent_child_map' = parent_child_map
          /\ (hierarchy.kind # "none" /\ root_arg' = root_arg) =>
                hierarchy' = hierarchy]_vars

C9_Witness ==
    /\ repeated
    /\ hierarchy.kind = "map"
    /\ Cardinality(DOMAIN hierarchy.map) >= 2
    /\ parent_child_map = _build_parent_child_map(processes)

\* C10: every call returns a mapping, whatever the parent edges; it never
\* ends in the interpreter's RecursionError.
C10_HierarchyTerminates == hierarchy.kind # "RecursionError"

(***************************************************************************)
(* Properties of the Sampler's queries.                                    *)
(***************************************************************************)
RECURSIVE SumOver(_, _)
\* The sum of f over the keys in S.
SumOver(f, S) ==
    IF S = {} THEN 0
    ELSE LET k == CHOOSE x \in S : TRUE
         IN  f[k] + SumOver(f, S \ {k})

\* C11: every network I/O record has established_connections +
\* listening_connections <= the connection count, and the values of its
\* connection_states map sum to the connection count, whatever statuses the
\* connections have.  Checked under SpecN.
C11_NetworkCountsConsistent ==
    (out.kind = "network_io" /\ ~IsNone(out.value)) =>
        LET n == Get(out.value)
        IN  /\ n.established_connections + n.listening_connections
                 <= total_connections(n)
            /\ SumOver(n.connection_states, DOMAIN n.connection_states)
                 = total_connections(n)

\* A record of three connections, two of them in the same state other than
\* ESTABLISHED and LISTEN.
C11_Witness ==
    /\ out.kind = "network_io"
    /\ ~IsNone(out.value)
    /\ Len(arg.conns) = 3
    /\ Get(out.value).listening_connections = 1
    /\ "CLOSE_WAIT" \in DOMAIN Get(out.value).connection_states
    /\ Get(out.value).connection_states["CLOSE_WAIT"] = 2

\* The processes of a table whose attribute read returned, in table order.
Readable(os) == SelectSeq(os, LAMBDA p : p.info = "")

\* C12: a scan returns exactly the processes whose attribute read succeeded,
\* in the order met: a process whose read is denied or that has exited is
\* left out and the scan goes on with the next one; a process whose disk or
\* network query alone fails is kept, with that I/O field absent.  Checked
\* under SpecS.
C12_ScanKeepsReadable ==
    out.kind = "processes" =>
        LET ok == Readable(arg)
        IN  /\ Len(out.value) = Len(ok)
            /\ \A i \in 1..Len(ok) :
                  /\ out.value[i].pid = ok[i].pid
                  /\ IsNone(out.value[i].disk_io) <=> ok[i].io.exc # ""
                  /\ ok[i].conns.exc # "" => IsNone(out.value[i].network_io)
                  /\ ok[i].conns.exc = "" => ~IsNone(out.value[i].network_io)

\* A scan that met a denied process first and then a process whose disk
\* query failed while its network query answered.
C12_Witness ==
    /\ out.kind = "processes"
    /\ Len(arg) = 2
    /\ arg[1].info = "AccessDenied"
    /\ arg[2].info = ""
    /\ arg[2].io.exc = "AccessDenied"
    /\ arg[2].conns.exc = ""
    /\ Len(out.value) = 1
    /\ out.value[1].pid = 2
    /\ IsNone(out.value[1].disk_io)
    /\ ~IsNone(out.value[1].network_io)

(***************************************************************************)
(* Properties of the Logger's summary, rows and tick order, under Spec.    *)
(***************************************************************************)
\* C13: get_log_summary changes neither file nor any field of the Logger,
\* and after any constructions and completed ticks it reports the number of
\* data rows appended so far (header excluded), the length of the document's
\* entry list and the log_start_time of the first initialization.
C13_SummaryReportsCounts ==
    /\ [][GetLogSummary =>
            UNCHANGED <<csv_file, json_file, log_interval, processes,
                        parent_child_map, pc>>]_vars
    /\ []((out.kind = "summary" /\ ~aborted) =>
            /\ out.csv_entries = Some(Len(Rows(csv_file)))
            /\ out.json_entries = Some(Len(json_file.doc.entries))
            /\ out.log_start_time = first_start)

(***************************************************************************)
(* Properties of the top-N display, checked under SpecT.                   *)
(***************************************************************************)
\* C14: a top-N request with N positive and above the number of available
\* processes is clamped with a warning and no error; a request with N
\* positive shows exactly min(N, available) processes, the ones with the
\* most CPU percent, in descending order of CPU percent; a request with N
\* not positive prints an error and shows nothing.
C14_TopClampedAndSorted ==
    out.kind = "top" =>
        LET n == out.count
            shown == out.shown
            pids == {shown[i].pid : i \in 1..Len(shown)}
        IN  /\ n <= 0 => out.error /\ shown = <<>>
            /\ n > 0 =>
                 /\ ~out.error
                 /\ n > Len(arg) => out.warning
                 /\ Len(shown) = Min({n, Len(arg)})
                 /\ Cardinality(pids) = Len(shown)
                 /\ \A i \in 1..Len(shown) :
                       \E j \in 1..Len(arg) : arg[j] = shown[i]
                 /\ \A i \in 1..Len(shown) : \A j \in 1..Len(shown) :
                       i < j => shown[i].cpu_percent >= shown[j].cpu_percent
                 /\ \A i \in 1..Len(shown) : \A j \in 1..Len(arg) :
                       arg[j].pid \notin pids
                           => arg[j].cpu_percent <= shown[i].cpu_percent

\* A request for more processes than the three available, which are held
\* in ascending order of CPU percent: warned, and the three shown reversed.
C14_Witness ==
    /\ out.kind = "top"
    /\ Len(arg) = 3
    /\ arg[1].cpu_percent < arg[2].cpu_percent
    /\ arg[2].cpu_percent < arg[3].cpu_percent
    /\ out.count = 4
    /\ out.warning
    /\ ~out.error
    /\ Len(out.shown) = 3
    /\ out.shown[1].pid = 3
    /\ out.shown[3].pid = 1

\* C15: in every row of a completed tick the parent_pid column is the empty
\* string when the record's parent_pid is absent and the parent PID when it
\* is present, a parent PID of 0 included.  Checked under Spec.
C15_ParentPidColumn ==
    pc = "check" =>
        \A i \in 1..Len(processes) :
            TickRow(i)[Col("parent_pid")] =
                IF IsNone(processes[i].parent_pid) THEN ""
                ELSE ToString(Get(processes[i].parent_pid))

RECURSIVE ProcessCountSum(_)
\* The sum of process_count over the entries.
ProcessCountSum(entries) ==
    IF entries = <<>> THEN 0
    ELSE entries[1].process_count + ProcessCountSum(Tail(entries))

RECURSIVE RowsMatchEntries(_, _)
\* The rows are the rows of the entries, tick by tick: each entry's
\* process_count is the length of its process list, and that many rows
\* follow with the entry's timestamp in their first cell.
RowsMatchEntries(rows, entries) ==
    IF entries = <<>> THEN rows = <<>>
    ELSE LET e == entries[1]
             n == e.process_count
         IN  /\ n = Len(e.processes)
             /\ Len(rows) >= n
             /\ \A i \in 1..n : rows[i][Col("timestamp")] = e.timestamp
             /\ RowsMatchEntries(SubSeq(rows, n + 1, Len(rows)),
                                 Tail(entries))

\* C16: whenever the Logger is not in the middle of a tick (constructed and
\* idle, at the top of the loop, or stopped by the duration or by an
\* interrupt) the document parses, the data rows are as many as the sum of
\* process_count over the entries, each entry's process_count is the length
\* of its process list, and the rows of a tick carry the timestamp of that
\* tick's entry.  Checked under Spec.
C16_RowsAndEntriesInStep ==
    pc \in {"ready", "sample", "stopped"} =>
        /\ json_file.parses
        /\ Len(Rows(csv_file)) = ProcessCountSum(json_file.doc.entries)
        /\ RowsMatchEntries(Rows(csv_file), json_file.doc.entries)

\* The positions that may follow a position of the loop when no interrupt
\* arrives: sample, write rows, write entry, duration check, wait.
TickSuccessors(p) ==
    CASE p = "sample" -> {"log"}
      [] p = "log" -> {"csv"}
      [] p = "csv" -> {"json_read"}
      [] p = "json_read" -> {"json_open", "error"}
      [] p = "json_open" -> {"json_dump"}
      [] p = "json_dump" -> {"check"}
      [] p = "check" -> {"sleep", "stopped"}
      [] p = "sleep" -> {"sample"}
      [] OTHER -> {}

\* The tick in progress is in both files: its rows end the row file and its
\* entry ends the document.
TickRecorded ==
    /\ json_file.parses
    /\ json_file.doc.entries # <<>>
    /\ TickEntry = Entry(processes, timestamp)
    /\ Len(Rows(csv_file)) >= Len(processes)
    /\ \A i \in 1..Len(processes) : TickRow(i) = CsvRow(processes[i], timestamp)

\* The duration bound is set and the elapsed time meets or exceeds it.
DurationBoundMet == ~IsNone(duration) /\ now - start_time >= Get(duration)

\* C17: a tick runs in the order sample, write rows, write entry, duration
\* check, wait, and a scan starts only when the loop starts or after the
\* wait of the tick before; the duration check is made only once the tick
\* is recorded, so a loop stopped by its duration has recorded a tick,
\* whatever the duration; and the loop does not wait after a tick at which
\* the duration bound is met.  Checked under Spec.
C17_TickOrder ==
    /\ [][(pc \in LoopPcs /\ pc' # pc
             /\ ~(pc' = "stopped" /\ stopped_by' = "interrupt"))
            => pc' \in TickSuccessors(pc)]_vars
    /\ [][(pc' = "sample" /\ pc # "sample")
            => pc \in {"ready", "stopped", "sleep"}]_vars
    /\ [](pc = "check" => TickRecorded)
    /\ [][(pc' = "stopped" /\ stopped_by' = "duration" /\ pc # "stopped")
            => (pc = "check" /\ TickRecorded)]_vars
    /\ [](pc = "sleep" => ~DurationBoundMet)

====
